---- MODULE Spec2Model ----
(***************************************************************************)
(* Image carousel and full-screen viewer of the project detail page        *)
(* (src/src/pages/ProjectPage.tsx).                                        *)
(*                                                                         *)
(* One ProjectPage component instance is modelled: its three useState      *)
(* cells, the route parameter it resolves its project from, the window     *)
(* keydown listeners its effect registers, and every event handler the     *)
(* rendered tree binds.  Every handler runs to completion in one step      *)
(* (single event queue, state updates of one handler are batched).         *)
(***************************************************************************)
EXTENDS Integers, FiniteSets

(* ---------------------------------------------------------------------- *)
(* Bounds and program constants                                            *)
(* ---------------------------------------------------------------------- *)

\* Largest number of screenshots a project of the catalogue has.
MaxN == 3

\* Cap on |currentImageIndex|: on an empty or foreign image set the index
\* walks away without limit, the guards stop the walk here.
MaxIndex == 4

\* Swipe threshold in pixels (swipeDistance > 50, swipeDistance < -50).
SwipeThreshold == 50

\* projects.find(...) found nothing for the route parameter.
NoMatch == -1

\* touchStartX === null
Null == -1

\* The route parameters: one project per screenshot count 0..MaxN (the
\* project is identified by that count), and one parameter no project has.
RouteParams == (0 .. MaxN) \cup {NoMatch}

\* clientX values: enough to produce the distances 0, 50, 51, 101 and
\* their negatives.
Coords == {0, SwipeThreshold, SwipeThreshold + 1, 2 * SwipeThreshold + 1}

\* event.key values; only the two arrows are bound.
Keys == {"ArrowLeft", "ArrowRight", "Enter"}

VARIABLES
    mounted,            \* the ProjectPage instance is mounted
    projectId,          \* useParams().projectId, as the project it resolves to
    showImageViewer,    \* useState(false)
    currentImageIndex,  \* useState(0)
    touchStartX,        \* useState<number | null>(null)
    keyListeners,       \* number of keydown listeners of the view on window
    lastEvent           \* the event handled last, with its payload

vars == <<mounted, projectId, showImageViewer, currentImageIndex,
          touchStartX, keyListeners, lastEvent>>

(* ---------------------------------------------------------------------- *)
(* The render of the current state                                         *)
(* ---------------------------------------------------------------------- *)

\* const project = projects.find(...): defined or undefined.
HasProject(p) == p # NoMatch

\* project.screenshots.length
Length(p) == p

\* The page body (and with it the touch handlers) renders only past the
\* "Project not found" early return.
PageRendered == mounted /\ HasProject(projectId)

\* project.screenshots && project.screenshots.length > 0 && ( carousel )
CarouselRendered == PageRendered /\ Length(projectId) > 0

\* <ImageViewer show={showImageViewer} ... />
ViewerShown == PageRendered /\ showImageViewer

\* The record of a handled event: its type, event.key, clientX, the index an
\* explicit selection asked for, the navigation the handler called, whether
\* a touch was tracked when a touch-end arrived, and its swipeDistance.
NoEvent ==
    [type |-> "", key |-> "", x |-> 0, index |-> 0, nav |-> "none",
     tracked |-> FALSE, swipeDistance |-> 0]

(* ---------------------------------------------------------------------- *)
(* Pure index computations                                                 *)
(* ---------------------------------------------------------------------- *)

\* Mutant: the wrap test compares with length instead of length - 1.
handleNextImageLateWrap(p, prevIndex) ==
    IF HasProject(p)
    THEN IF prevIndex = Length(p) THEN 0 ELSE prevIndex + 1
    ELSE prevIndex

\* Mutant: no wraparound at the last image.
handleNextImageNoWrap(p, prevIndex) ==
    IF HasProject(p)
    THEN IF prevIndex = Length(p) - 1 THEN prevIndex ELSE prevIndex + 1
    ELSE prevIndex

\* handleNextImage's state updater, for the project captured by the callback.
handleNextImage(p, prevIndex) ==
    IF HasProject(p)
    THEN IF prevIndex = Length(p) - 1 THEN 0 ELSE prevIndex + 1
    ELSE prevIndex

\* Mutant: wraps from the first image to length instead of length - 1.
handlePrevImageWrapToLength(p, prevIndex) ==
    IF HasProject(p)
    THEN IF prevIndex = 0 THEN Length(p) ELSE prevIndex - 1
    ELSE prevIndex

\* handlePrevImage's state updater.
handlePrevImage(p, prevIndex) ==
    IF HasProject(p)
    THEN IF prevIndex = 0 THEN Length(p) - 1 ELSE prevIndex - 1
    ELSE prevIndex

\* handleKeyDown: ArrowLeft -> prev, ArrowRight -> next, anything else ignored.
handleKeyDown(p, key, prevIndex) ==
    IF key = "ArrowLeft" THEN handlePrevImage(p, prevIndex)
    ELSE IF key = "ArrowRight" THEN handleNextImage(p, prevIndex)
    ELSE prevIndex

\* Which navigation handleKeyDown calls.
KeyNav(key) ==
    IF key = "ArrowLeft" THEN "prev"
    ELSE IF key = "ArrowRight" THEN "next"
    ELSE "none"

\* Mutant: the threshold itself already navigates (>= and <=).
SwipeNavInclusive(swipeDistance) ==
    IF swipeDistance >= SwipeThreshold THEN "next"
    ELSE IF swipeDistance <= -SwipeThreshold THEN "prev"
    ELSE "none"

\* Which navigation handleTouchEnd calls for a swipe distance.
SwipeNav(swipeDistance) ==
    IF swipeDistance > SwipeThreshold THEN "next"
    ELSE IF swipeDistance < -SwipeThreshold THEN "prev"
    ELSE "none"

\* The index after the navigation nav.
Navigate(p, nav, prevIndex) ==
    IF nav = "next" THEN handleNextImage(p, prevIndex)
    ELSE IF nav = "prev" THEN handlePrevImage(p, prevIndex)
    ELSE prevIndex

\* Every registered keydown listener runs once per key press.
RECURSIVE Dispatch(_, _, _, _)
Dispatch(k, p, key, prevIndex) ==
    IF k <= 0 THEN prevIndex
    ELSE Dispatch(k - 1, p, key, handleKeyDown(p, key, prevIndex))

\* n applications of handleNextImage.
RECURSIVE NextTimes(_, _, _)
NextTimes(n, p, i) ==
    IF n <= 0 THEN i ELSE NextTimes(n - 1, p, handleNextImage(p, i))

\* Mutant: the cleanup removes nothing (a listener reference that differs
\* from the registered one).
EffectCleanupSkipped(k) == k

\* The keydown effect: addEventListener on run, removeEventListener on cleanup.
EffectRun(k) == k + 1

EffectCleanup(k) == k - 1

\* The useState initial values of a mounting instance.
InitialState ==
    /\ showImageViewer' = FALSE
    /\ currentImageIndex' = 0
    /\ touchStartX' = Null

InCap(i) == -MaxIndex <= i /\ i <= MaxIndex

(* ---------------------------------------------------------------------- *)
(* Initial state: a freshly mounted view of any route parameter            *)
(* ---------------------------------------------------------------------- *)

Init ==
    /\ mounted = TRUE
    /\ projectId \in RouteParams
    /\ showImageViewer = FALSE
    /\ currentImageIndex = 0
    /\ touchStartX = Null
    /\ keyListeners = EffectRun(0)
    /\ lastEvent = [NoEvent EXCEPT !.type = "mount"]

(* ---------------------------------------------------------------------- *)
(* Lifecycle                                                               *)
(* ---------------------------------------------------------------------- *)

\* The route starts matching the project page: a new instance mounts, its
\* state cells take their initial values and the keydown effect runs.
Mount(p) ==
    /\ ~mounted
    /\ mounted' = TRUE
    /\ projectId' = p
    /\ InitialState
    /\ keyListeners' = EffectRun(keyListeners)
    /\ lastEvent' = [NoEvent EXCEPT !.type = "mount"]

\* The route leaves the project page ("Back to Projects", a navbar link):
\* the instance unmounts and the effect's cleanup runs.
Unmount ==
    /\ mounted
    /\ mounted' = FALSE
    /\ keyListeners' = EffectCleanup(keyListeners)
    /\ lastEvent' = [NoEvent EXCEPT !.type = "unmount"]
    /\ UNCHANGED <<projectId, showImageViewer, currentImageIndex, touchStartX>>

\* The route parameter changes under the mounted instance (a history jump
\* from one project URL to another): the component re-renders with another
\* project, the useState cells keep their values, and the keydown effect,
\* whose dependencies changed with project, is cleaned up and run again.
ChangeRoute(p) ==
    /\ mounted
    /\ p # projectId
    /\ projectId' = p
    /\ keyListeners' = EffectRun(EffectCleanup(keyListeners))
    /\ lastEvent' = [NoEvent EXCEPT !.type = "route"]
    /\ UNCHANGED <<mounted, showImageViewer, currentImageIndex, touchStartX>>

(* ---------------------------------------------------------------------- *)
(* Input events                                                            *)
(* ---------------------------------------------------------------------- *)

\* A keydown on window, at any time: every registered listener of the view
\* runs its handleKeyDown.
KeyDown(key) ==
    /\ LET i == Dispatch(keyListeners, projectId, key, currentImageIndex)
       IN /\ InCap(i)
          /\ currentImageIndex' = i
    /\ lastEvent' = [NoEvent EXCEPT !.type = "keydown", !.key = key,
                        !.nav = IF keyListeners > 0 THEN KeyNav(key) ELSE "none"]
    /\ UNCHANGED <<mounted, projectId, showImageViewer, touchStartX, keyListeners>>

\* handleTouchStart: record the touch's clientX, overwriting any tracked one.
TouchStart(x) ==
    /\ PageRendered
    /\ touchStartX' = x
    /\ lastEvent' = [NoEvent EXCEPT !.type = "touchstart", !.x = x]
    /\ UNCHANGED <<mounted, projectId, showImageViewer, currentImageIndex, keyListeners>>

\* Mutant: the tracked start is forgotten only when the swipe navigated.
AfterTouchEndOnSwipe(nav, startX) == IF nav = "none" THEN startX ELSE Null

\* handleTouchEnd's last statement, setTouchStartX(null), whatever the
\* navigation was.
AfterTouchEnd(nav, startX) == Null

\* handleTouchEnd: navigate on a tracked swipe beyond the threshold, and
\* forget the tracked start in every case.
TouchEnd(x) ==
    /\ PageRendered
    /\ LET tracked == touchStartX # Null
           swipeDistance == IF tracked THEN touchStartX - x ELSE 0
           nav == IF tracked THEN SwipeNav(swipeDistance) ELSE "none"
           i == Navigate(projectId, nav, currentImageIndex)
       IN /\ InCap(i)
          /\ currentImageIndex' = i
          /\ touchStartX' = AfterTouchEnd(nav, touchStartX)
          /\ lastEvent' = [NoEvent EXCEPT !.type = "touchend", !.x = x, !.nav = nav,
                              !.tracked = tracked, !.swipeDistance = swipeDistance]
    /\ UNCHANGED <<mounted, projectId, showImageViewer, keyListeners>>

\* The carousel's and the viewer's next control: onClick / onNext = handleNextImage.
ClickNext ==
    /\ CarouselRendered \/ ViewerShown
    /\ InCap(handleNextImage(projectId, currentImageIndex))
    /\ currentImageIndex' = handleNextImage(projectId, currentImageIndex)
    /\ lastEvent' = [NoEvent EXCEPT !.type = "clicknext", !.nav = "next"]
    /\ UNCHANGED <<mounted, projectId, showImageViewer, touchStartX, keyListeners>>

\* The carousel's and the viewer's previous control.
ClickPrev ==
    /\ CarouselRendered \/ ViewerShown
    /\ InCap(handlePrevImage(projectId, currentImageIndex))
    /\ currentImageIndex' = handlePrevImage(projectId, currentImageIndex)
    /\ lastEvent' = [NoEvent EXCEPT !.type = "clickprev", !.nav = "prev"]
    /\ UNCHANGED <<mounted, projectId, showImageViewer, touchStartX, keyListeners>>

\* An indicator dot: onClick={() => setCurrentImageIndex(index)}, one dot
\* per screenshot.
SelectIndex(index) == index

ClickIndicator(index) ==
    /\ CarouselRendered
    /\ index \in 0 .. Length(projectId) - 1
    /\ currentImageIndex' = SelectIndex(index)
    /\ lastEvent' = [NoEvent EXCEPT !.type = "indicator", !.index = index]
    /\ UNCHANGED <<mounted, projectId, showImageViewer, touchStartX, keyListeners>>

\* handleOpenImageViewer(index): store the index, show the viewer.
handleOpenImageViewer(index) ==
    /\ currentImageIndex' = SelectIndex(index)
    /\ showImageViewer' = TRUE

\* The inline image: onClick={() => handleOpenImageViewer(currentImageIndex)}.
ClickImage ==
    /\ CarouselRendered
    /\ handleOpenImageViewer(currentImageIndex)
    /\ lastEvent' = [NoEvent EXCEPT !.type = "open", !.index = currentImageIndex]
    /\ UNCHANGED <<mounted, projectId, touchStartX, keyListeners>>

\* Mutant: closing also rewinds the carousel to the first image.
handleCloseImageViewerReset ==
    /\ showImageViewer' = FALSE
    /\ currentImageIndex' = 0

\* handleCloseImageViewer, the viewer's onClose.
handleCloseImageViewer ==
    /\ showImageViewer' = FALSE
    /\ UNCHANGED currentImageIndex

CloseViewer ==
    /\ ViewerShown
    /\ handleCloseImageViewer
    /\ lastEvent' = [NoEvent EXCEPT !.type = "close"]
    /\ UNCHANGED <<mounted, projectId, touchStartX, keyListeners>>

(* ---------------------------------------------------------------------- *)
(* Specifications                                                          *)
(* ---------------------------------------------------------------------- *)

\* The operations on one project view, from mount to unmount.
NextView ==
    \/ \E p \in RouteParams : Mount(p)
    \/ Unmount
    \/ \E key \in Keys : KeyDown(key)
    \/ \E x \in Coords : TouchStart(x)
    \/ \E x \in Coords : TouchEnd(x)
    \/ ClickNext
    \/ ClickPrev
    \/ \E index \in 0 .. MaxN : ClickIndicator(index)
    \/ ClickImage
    \/ CloseViewer

\* The same, and the route parameter changing under a mounted view.
Next ==
    \/ NextView
    \/ \E p \in RouteParams : ChangeRoute(p)

SpecView == Init /\ [][NextView]_vars

Spec == Init /\ [][Next]_vars

(* ---------------------------------------------------------------------- *)
(* Properties                                                              *)
(* ---------------------------------------------------------------------- *)

N == Length(projectId)

InRange == currentImageIndex \in 0 .. N - 1

\* C1: on a project with N > 0 screenshots, in every state reached from
\* mount by key presses, touches, arrow, indicator and image clicks and
\* closes, currentImageIndex is in [0, N-1].
C1_IndexInRange == CarouselRendered => InRange

\* C1 witness: a next() on the last of three images has wrapped to 0 with
\* the viewer open.
C1_Witness ==
    /\ CarouselRendered /\ N = 3 /\ showImageViewer
    /\ lastEvent.nav = "next" /\ currentImageIndex = 0

\* C2: with N = 0 screenshots, a key press or a touch-end changes neither
\* currentImageIndex nor showImageViewer.
C2_EmptySetNoop ==
    [][(PageRendered /\ N = 0 /\ lastEvent'.type \in {"keydown", "touchend"})
         => (currentImageIndex' = currentImageIndex
             /\ showImageViewer' = showImageViewer)]_vars

\* C3: for N > 0 and an index i in [0, N-1], next() sets the index to
\* (i + 1) mod N, and N - 1 further next() calls bring it back to i.
C3_NextCycles ==
    [][(CarouselRendered /\ InRange /\ lastEvent'.nav = "next")
         => (currentImageIndex' = (currentImageIndex + 1) % N
             /\ NextTimes(N - 1, projectId, currentImageIndex') = currentImageIndex)]_vars

\* C3 witness: next() on index 2 of three images wrapped to 0.
C3_Witness ==
    /\ CarouselRendered /\ N = 3
    /\ lastEvent.type = "keydown" /\ lastEvent.nav = "next"
    /\ currentImageIndex = 0

\* C4: for N > 0 and an index i in [0, N-1], prev() sets the index to
\* (i - 1 + N) mod N, and prev() applied to the result of next() gives i.
C4_PrevInvertsNext ==
    [][(CarouselRendered /\ InRange)
         => /\ lastEvent'.nav = "next"
                 => handlePrevImage(projectId, currentImageIndex') = currentImageIndex
            /\ lastEvent'.nav = "prev"
                 => currentImageIndex' = (currentImageIndex - 1 + N) % N]_vars

\* C4 witness: prev() on index 0 of three images wrapped to 2.
C4_Witness ==
    /\ CarouselRendered /\ N = 3
    /\ lastEvent.nav = "prev"
    /\ currentImageIndex = 2

\* C5: a touch-end while a touch is tracked, with distance = startX - endX,
\* does one next() iff distance > 50, one prev() iff distance < -50, and
\* leaves the index alone otherwise.
C5_SwipeThreshold ==
    [][(CarouselRendered /\ InRange /\ touchStartX # Null
            /\ lastEvent'.type = "touchend")
         => LET distance == touchStartX - lastEvent'.x
            IN currentImageIndex' =
                   IF distance > 50 THEN (currentImageIndex + 1) % N
                   ELSE IF distance < -50 THEN (currentImageIndex - 1 + N) % N
                   ELSE currentImageIndex]_vars

\* C5 witness: a swipe of 51 pixels moved a three-image carousel from 0 to 1.
C5_Witness ==
    /\ CarouselRendered /\ N = 3
    /\ lastEvent.type = "touchend" /\ lastEvent.tracked
    /\ lastEvent.swipeDistance = 51
    /\ currentImageIndex = 1

\* C6: an explicit selection (indicator, open) leaves currentImageIndex at
\* the requested index clamped into [0, N-1].
C6_SelectionClamped ==
    (CarouselRendered /\ lastEvent.type \in {"indicator", "open"})
        => currentImageIndex =
               IF lastEvent.index < 0 THEN 0
               ELSE IF lastEvent.index > N - 1 THEN N - 1
               ELSE lastEvent.index

\* C7: when the route parameter resolves to another project, the state the
\* new project's view sees is index 0, viewer closed, no tracked touch.
C7_FreshStateOnProjectChange ==
    (mounted /\ lastEvent.type = "route")
        => (currentImageIndex = 0 /\ showImageViewer = FALSE
            /\ touchStartX = Null)

\* C8: closing the viewer sets showImageViewer to false and keeps
\* currentImageIndex; opening it from the inline image shows the index the
\* carousel is at.
C8_CloseKeepsIndex ==
    [][/\ lastEvent'.type = "close"
            => (showImageViewer' = FALSE
                /\ currentImageIndex' = currentImageIndex)
       /\ lastEvent'.type = "open"
            => (showImageViewer' = TRUE
                /\ currentImageIndex' = currentImageIndex)]_vars

\* C8 witness: the viewer was closed with the carousel at index 2.
C8_Witness ==
    /\ CarouselRendered /\ InRange
    /\ lastEvent.type = "close"
    /\ currentImageIndex = 2 /\ showImageViewer = FALSE

\* C9: exactly one keydown listener of the view is registered while it is
\* mounted, across re-runs of the effect, and none once it is unmounted, so
\* that a key press after unmount changes nothing of the view's state.
C9_OneKeyListener ==
    /\ [](keyListeners = IF mounted THEN 1 ELSE 0)
    /\ [][(~mounted /\ lastEvent'.type = "keydown")
            => UNCHANGED <<showImageViewer, currentImageIndex, touchStartX>>]_vars

\* C9 witness: the effect re-ran for another project's handlers and one
\* listener is registered.
C9_Witness == mounted /\ lastEvent.type = "route" /\ keyListeners = 1

\* C10: after every touch-end no touch is tracked, and a touch-end arriving
\* while none is tracked changes neither index nor viewer.
C10_TouchEndResets ==
    [][lastEvent'.type = "touchend"
         => /\ touchStartX' = Null
            /\ touchStartX = Null
                 => (currentImageIndex' = currentImageIndex
                     /\ showImageViewer' = showImageViewer)]_vars

\* C10 witness: a touch-end at the threshold (no navigation) left no touch
\* tracked.
C10_Witness ==
    /\ PageRendered
    /\ lastEvent.type = "touchend" /\ lastEvent.tracked
    /\ lastEvent.nav = "none" /\ lastEvent.swipeDistance = 50
    /\ touchStartX = Null

====
